---- MODULE Spec2Model ----
(***************************************************************************)
(* State-machine model of the redis_lock package of go_cache_lib:          *)
(* Client.Lock / Client.TryLock (client.go), Lock.UnLock / Lock.Refresh /  *)
(* Lock.AutoRefresh (lock.go), FixIntervalRetry (retry.go) and the store   *)
(* side scripts (lua/lock.lua; unlock.lua and refresh.lua are not in the   *)
(* source tree and follow the written specification).                      *)
(*                                                                         *)
(* Time is counted in milliseconds.  A store record carries the remaining  *)
(* lifetime of its key.  Spec (the acquisition client and the calls on a   *)
(* *Lock) and WatchdogSpec (a *Lock with its AutoRefresh goroutine) let    *)
(* every deadline (a key's expiry, a retry timer, a ticker) run out at any *)
(* moment, on its own: they contain every order of events.  The timed      *)
(* specifications instead move all clocks together with Elapse, from one   *)
(* pending deadline to the next, for the claims that are about durations.  *)
(* A store round trip ends in one of three ways (reply delivered,          *)
(* transport error, deadline exceeded) and, when the reply is lost, the    *)
(* script may or may not have run on the store.                            *)
(***************************************************************************)
EXTENDS Integers, FiniteSets, Sequences, TLC

VARIABLES
    store,      \* the remote store: key -> [val, pttl]
    call,       \* per client: the frame of its Client.Lock call
    retry,      \* per client: its FixIntervalRetry object
    lock,       \* per client: the *Lock it holds (NoLock when none)
    ret,        \* the outcome of the step just taken, when it has one: the
                \* return of a public call, or the reply to one attempt of Lock
    wd,         \* per client: the AutoRefresh goroutine on its *Lock
    released,   \* per client: UnLock on the current *Lock has returned nil
    ops,        \* number of public calls started so far
    sleep,      \* per client: remaining time.Sleep before its next call
    lru,        \* the LRUCache: capacity, cache (the map), head, tail and
                \* the nodes it points to
    gr,         \* per goroutine: the frame of its call on the LRUCache
    hist,       \* the calls on the LRUCache that have returned: the keys
                \* in the order of their last use, the last value put
    cache,      \* the expiring cache: defaultExpire, items, lock (the
                \* RWMutex) and whether the runtime has ended the program
    cgr,        \* per goroutine: the frame of its call on the expiring cache
    now         \* time.Now().Unix()

lockVars == <<store, call, retry, lock, ret, wd, released, ops, sleep>>

lruVars == <<lru, gr, hist>>

cacheVars == <<cache, cgr, now>>

vars == <<lockVars, lruVars, cacheVars>>

-----------------------------------------------------------------------------
(* Bounds and input sets *)

MaxOps == 4             \* public calls made by all clients together
MaxRetries == 1         \* largest FixIntervalRetry.Max a caller configures
MaxRefreshCalls == 2    \* Refresh calls one AutoRefresh goroutine may issue

Clients == {"c1", "c2"}
Keys == {"k1"}
Tokens == {"t1", "t2"}

Nil == "nil"

Second == 1000          \* time.Second, in milliseconds

Expirations == {2 * Second}
Intervals == {1 * Second}

-----------------------------------------------------------------------------
(* Small helpers *)

Min(S) == CHOOSE x \in S : \A y \in S : x <= y

Monus(a, d) == IF a > d THEN a - d ELSE 0

\* A Go channel: nil (never made) or made, with the number of buffered values.
NilChan == [made |-> FALSE, len |-> 0]

\* A receive from a channel can proceed only on a made channel that holds a
\* value; a receive from a nil channel blocks forever.
RecvReady(ch) == ch.made /\ ch.len > 0

-----------------------------------------------------------------------------
(* The store and its scripts *)

Absent == [val |-> Nil, pttl |-> 0]

\* expiration.Seconds(): the duration as a number of seconds (the callers
\* modelled here pass whole seconds).
Seconds(d) == d \div Second

\* lock.lua without the comparison of the stored value: any caller takes the
\* key over.
luaLockNoCompare(rec, val, arg) ==
    IF rec.val = Nil
    THEN [res |-> "OK", rec |-> [val |-> val, pttl |-> arg]]
    ELSE [res |-> "OK", rec |-> [val |-> val, pttl |-> arg * Second]]

\* lua/lock.lua.  ARGV[2] is the number the client passed; the create branch
\* hands it to SET ... PX (milliseconds), the same-owner branch to EXPIRE
\* (seconds).
luaLock(rec, val, arg) ==
    IF rec.val = Nil
    THEN [res |-> "OK", rec |-> [val |-> val, pttl |-> arg]]
    ELSE IF rec.val = val
         THEN [res |-> "OK", rec |-> [val |-> rec.val, pttl |-> arg * Second]]
         ELSE [res |-> "", rec |-> rec]

\* lua/unlock.lua (release script): delete on a token match and answer the
\* number of keys deleted, otherwise answer 0 and change nothing.
luaUnlock(rec, val) ==
    IF rec.val # Nil /\ rec.val = val
    THEN [res |-> 1, rec |-> Absent]
    ELSE [res |-> 0, rec |-> rec]

\* lua/refresh.lua (refresh script): on a token match set the expiry to the
\* lease and answer the "held" code, otherwise answer the "not held" code and
\* change nothing.
luaRefresh(rec, val, lease) ==
    IF rec.val # Nil /\ rec.val = val
    THEN [res |-> 1, rec |-> [val |-> rec.val, pttl |-> lease]]
    ELSE [res |-> 0, rec |-> rec]

\* SET without the NX condition: an existing record is overwritten.
SetNXOverwrite(rec, val, d) ==
    [ok |-> TRUE, rec |-> [val |-> val, pttl |-> d]]

\* SetNX with the expiration taken in the wrong unit (seconds for
\* milliseconds).
SetNXWrongUnit(rec, val, d) ==
    IF rec.val = Nil
    THEN [ok |-> TRUE, rec |-> [val |-> val, pttl |-> d * Second]]
    ELSE [ok |-> FALSE, rec |-> rec]

\* SETNX key val with an expiration (redis.Cmdable.SetNX).
SetNX(rec, val, d) ==
    IF rec.val = Nil
    THEN [ok |-> TRUE, rec |-> [val |-> val, pttl |-> d]]
    ELSE [ok |-> FALSE, rec |-> rec]

\* How a store round trip ends: net is "ok" (reply delivered), "fail"
\* (transport or protocol error) or "timeout" (context deadline exceeded);
\* applied says whether the command ran on the store.
NetCases ==
    {[net |-> "ok", applied |-> TRUE]}
    \cup [net : {"fail", "timeout"}, applied : BOOLEAN]

NetErr(net) ==
    CASE net = "ok" -> Nil
      [] net = "fail" -> "StoreError"
      [] net = "timeout" -> "DeadlineExceeded"

-----------------------------------------------------------------------------
(* Values of the client side *)

NoLock == [key |-> Nil, val |-> Nil, expired |-> 0, unlock |-> NilChan]

\* newLock: the unlock channel is left at its zero value (nil).
newLock(k, v, d) == [key |-> k, val |-> v, expired |-> d, unlock |-> NilChan]

DelSuccess == 1
NotExistKey == 1

\* The frame of a Lock call: where it is (idle, eval: an Eval in flight with
\* wait left of its round trip, select: waiting on the retry timer or the
\* context), its arguments and the number of store attempts made; the
\* frame ends with the call.
IdleCall ==
    [pc |-> "idle", key |-> Nil, val |-> Nil, expiration |-> 0,
     ctx |-> "live", wait |-> 0, timer |-> 0, attempts |-> 0]

\* The outcome of a step: the client and the call; the reply of the store
\* round trip the step made, as the client read it (res, and neterr: the error
\* of the round trip, Nil for none); whether the call returned (done) and then
\* its error (Nil for none), for "retries exhausted" the wrapped cause, whether
\* it returned a *Lock, and for Lock the number of store attempts made so far.
NoRet == [client |-> Nil, op |-> Nil, res |-> Nil, neterr |-> Nil, done |-> FALSE,
          err |-> Nil, cause |-> Nil, got |-> FALSE, attempts |-> 0]

Ret(c, op, res, neterr, err, cause, l, n) ==
    [client |-> c, op |-> op, res |-> res, neterr |-> neterr, done |-> TRUE,
     err |-> err, cause |-> cause, got |-> (l # NoLock), attempts |-> n]

\* The reply of a script that answers a number, written as the outcome records
\* it.
Num(n) == IF n = 1 THEN "1" ELSE "0"

NoWd == [state |-> "off", interval |-> 0, tick |-> 0, tc |-> 0, ch |-> 0,
         calls |-> 0, err |-> Nil]

\* Next with the comparison off by one: it stops one call early.
FixNextStrict(f) ==
    [f |-> [f EXCEPT !.cnt = f.cnt + 1], interval |-> f.Interval,
     ok |-> f.cnt + 1 < f.Max]

\* Next that starts over once it has answered stop.
FixNextReset(f) ==
    [f |-> [f EXCEPT !.cnt = IF f.cnt + 1 > f.Max THEN 0 ELSE f.cnt + 1],
     interval |-> f.Interval,
     ok |-> f.cnt + 1 <= f.Max]

\* FixIntervalRetry.Next: count the call, answer the interval and whether the
\* count is still within Max.
FixNext(f) ==
    [f |-> [f EXCEPT !.cnt = f.cnt + 1], interval |-> f.Interval,
     ok |-> f.cnt + 1 <= f.Max]

\* No FixIntervalRetry yet.
NoRetry == [Interval |-> 0, Max |-> 0, cnt |-> 0]

-----------------------------------------------------------------------------
(* The LRU cache (lru.go): values *)

MaxKey == 3             \* keys are 1 .. MaxKey
MaxValue == 2           \* values are 1 .. MaxValue
MaxCapacity == 2        \* largest capacity given to Constructor
MaxCopies == 3          \* nodes with the same key alive at one time

MaxNodes == MaxKey * MaxCopies

DefaultCapacity == 16

LruKeys == 1 .. MaxKey
LruValues == 1 .. MaxValue
Capacities == 0 .. MaxCapacity
NodeIds == 1 .. MaxNodes
Goroutines == {"g1", "g2"}

\* A *node is the number of a node, 0 for nil.  The nodes made for key k are
\* numbered k, k + MaxKey, k + 2 * MaxKey, ...
ZeroNode == [key |-> 0, value |-> 0, prev |-> 0, next |-> 0]

\* Constructor: an empty cache; a capacity that is not positive becomes the
\* default.
Constructor(capacity) ==
    [capacity |-> IF capacity <= 0 THEN DefaultCapacity ELSE capacity,
     cache |-> [k \in LruKeys |-> 0],
     head |-> 0,
     tail |-> 0,
     node |-> [i \in NodeIds |-> ZeroNode]]

\* The frame of a call: where it is, its arguments and the node it holds (the
\* locals getNode / nodeNew); after the return, the result (of Get, with its
\* key).
IdleGr == [pc |-> "idle", key |-> 0, value |-> 0, n |-> 0, res |-> 0]

NoHist == [used |-> <<>>, latest |-> [k \in LruKeys |-> 0]]

\* No LRUCache in use.
LruOff ==
    /\ lru = Constructor(0)
    /\ gr = [g \in Goroutines |-> IdleGr]
    /\ hist = NoHist

-----------------------------------------------------------------------------
(* The expiring cache (local_cache): values *)

MaxNow == 3             \* the clock runs from 1 to MaxNow (seconds)

NoExpire == -1
DefaultExpire == 0

CacheKeys == {"a", "b"}
Objs == {"x"}

\* The durations a caller passes, in seconds.
Durations == {NoExpire, DefaultExpire, 1}

\* time.Time: the zero value, or an instant in seconds and nanoseconds since
\* the epoch.
NanosPerSecond == 1000000000
ZeroTime == [zero |-> TRUE, sec |-> 0, nsec |-> 0]

\* time.Unix(sec, nsec): nanoseconds beyond a second carry into the seconds.
Unix(sec, nsec) ==
    [zero |-> FALSE, sec |-> sec + nsec \div NanosPerSecond,
     nsec |-> nsec % NanosPerSecond]

\* An entry of the map items; NoItem for a key the map does not hold.
Item(obj, e) == [Obj |-> obj, ExpireTime |-> e]
NoItem == [Obj |-> Nil, ExpireTime |-> -1]

\* sync.RWMutex: the goroutine that holds it for writing (or waits for the
\* readers to leave, new readers already kept out), the goroutines that hold
\* it for reading, and the ones blocked in RLock.
FreeMutex == [writer |-> Nil, readers |-> {}, pending |-> {}]

\* newCache
newCache(d) ==
    [defaultExpire |-> IF d <= 0 THEN -1 ELSE d,
     items |-> [k \in CacheKeys |-> NoItem],
     lock |-> FreeMutex,
     fatal |-> FALSE]

\* What a call returns: Get (obj, ok), GetWithExpire (obj, t, ok), Replace
\* (err), ItemCount (n).
NoRes == [obj |-> Nil, t |-> ZeroTime, ok |-> FALSE, n |-> 0, err |-> Nil]

\* The frame of a call on the cache: the operation, its arguments, the
\* value of the clock it read before taking the lock, and what it returned.
IdleCgr ==
    [pc |-> "idle", op |-> Nil, k |-> Nil, v |-> Nil, d |-> 0, e |-> 0,
     res |-> NoRes]

\* No expiring cache in use.
CacheOff ==
    /\ cache = newCache(0)
    /\ cgr = [g \in Goroutines |-> IdleCgr]
    /\ now = 1

Init ==
    /\ store = [k \in Keys |-> Absent]
    /\ call = [c \in Clients |-> IdleCall]
    /\ retry = [c \in Clients |-> NoRetry]
    /\ lock = [c \in Clients |-> NoLock]
    /\ ret = NoRet
    /\ wd = [c \in Clients |-> NoWd]
    /\ released = [c \in Clients |-> FALSE]
    /\ ops = 0
    /\ sleep = [c \in Clients |-> 0]
    /\ LruOff
    /\ CacheOff

-----------------------------------------------------------------------------
(* Client.Lock: the blocking acquire *)

CanCall(c) == call[c].pc = "idle" /\ sleep[c] = 0 /\ ops < MaxOps

\* A client takes a new *Lock only while no AutoRefresh goroutine of its own is
\* running on the one it has.
CanAcquire(c) == CanCall(c) /\ wd[c].state # "running"

\* Lines 46-47: one Eval of the lock script under context.WithTimeout(ctx,
\* timeout); its round trip takes lat.
StartEval(f, lat) ==
    [f EXCEPT !.pc = "eval", !.wait = lat, !.attempts = f.attempts + 1]

\* The loop without the early return on a deadline: every failed attempt is
\* retried.
LockBranchRetryAll(res, err) ==
    IF res = "OK" THEN "locked" ELSE "retry"

\* Lines 50-58: what the loop does with the outcome of one attempt.
LockBranch(res, err) ==
    IF err # Nil /\ err = "DeadlineExceeded" THEN "fatal"
    ELSE IF res = "OK" THEN "locked"
    ELSE "retry"

\* Lines 60-65: the cause wrapped by the "retries exhausted" error.
LastCause(err) == IF err = Nil THEN "held" ELSE err

\* The error of the in-flight Eval of client c: the overall context's
\* cancellation, or the way the round trip ended.
EvalErr(c, net) ==
    IF call[c].ctx = "canceled" THEN "Canceled" ELSE NetErr(net)

\* Client.Lock is entered with a retry strategy r and sends its first attempt.
LockCall(c, k, v, d, r, lat) ==
    /\ CanAcquire(c)
    /\ call' = [call EXCEPT ![c] =
                 StartEval([IdleCall EXCEPT !.key = k, !.val = v, !.expiration = d],
                           lat)]
    /\ retry' = [retry EXCEPT ![c] = r]
    /\ ops' = ops + 1
    /\ ret' = NoRet
    /\ UNCHANGED <<store, lock, wd, released, sleep>>
    /\ UNCHANGED <<lruVars, cacheVars>>

\* Lines 47-71: the Eval of client c ends as nc says and the loop body runs up
\* to the return or the select.
LockRecv(c, nc) ==
    /\ call[c].pc = "eval"
    /\ call[c].wait = 0 \/ call[c].ctx = "canceled"
    /\ LET f == call[c]
           err == EvalErr(c, nc.net)
           sr == luaLock(store[f.key], f.val, Seconds(f.expiration))
           res == IF err = Nil THEN sr.res ELSE Nil
           branch == LockBranch(res, err)
           nx == FixNext(retry[c])
       IN
       /\ store' = IF nc.applied THEN [store EXCEPT ![f.key] = sr.rec] ELSE store
       /\ CASE branch = "fatal" ->
                 /\ call' = [call EXCEPT ![c] = IdleCall]
                 /\ retry' = retry
                 /\ ret' = Ret(c, "Lock", res, err, err, Nil, NoLock, f.attempts)
                 /\ UNCHANGED <<lock, released>>
            [] branch = "locked" ->
                 /\ call' = [call EXCEPT ![c] = IdleCall]
                 /\ retry' = retry
                 /\ lock' = [lock EXCEPT ![c] = newLock(f.key, f.val, f.expiration)]
                 /\ released' = [released EXCEPT ![c] = FALSE]
                 /\ ret' = Ret(c, "Lock", res, err, Nil, Nil,
                               newLock(f.key, f.val, f.expiration), f.attempts)
            [] branch = "retry" ->
                 /\ retry' = [retry EXCEPT ![c] = nx.f]
                 /\ IF ~nx.ok
                    THEN /\ call' = [call EXCEPT ![c] = IdleCall]
                         /\ ret' = Ret(c, "Lock", res, err, "RetriesExhausted",
                                       LastCause(err), NoLock, f.attempts)
                    ELSE /\ call' = [call EXCEPT ![c] =
                                      [f EXCEPT !.pc = "select", !.timer = nx.interval]]
                         /\ ret' = [Ret(c, "Lock", res, err, Nil, Nil, NoLock,
                                         f.attempts) EXCEPT !.done = FALSE]
                 /\ UNCHANGED <<lock, released>>
    /\ UNCHANGED <<wd, ops, sleep>>
    /\ UNCHANGED <<lruVars, cacheVars>>

\* Line 73: the retry timer has fired; the loop sends the next attempt.
LockTimer(c, lat) ==
    /\ call[c].pc = "select"
    /\ call[c].timer = 0
    /\ call' = [call EXCEPT ![c] = StartEval(call[c], lat)]
    /\ ret' = NoRet
    /\ UNCHANGED <<store, retry, lock, wd, released, ops, sleep>>
    /\ UNCHANGED <<lruVars, cacheVars>>

\* Lines 74-75: the overall context is done; Lock returns ctx.Err().
LockCtxDone(c) ==
    /\ call[c].pc = "select"
    /\ call[c].ctx = "canceled"
    /\ call' = [call EXCEPT ![c] = IdleCall]
    /\ retry' = retry
    /\ ret' = Ret(c, "Lock", Nil, Nil, "Canceled", Nil, NoLock, call[c].attempts)
    /\ UNCHANGED <<store, lock, wd, released, ops, sleep>>
    /\ UNCHANGED <<lruVars, cacheVars>>

\* The caller cancels the context it passed to Lock.
CtxCancel(c) ==
    /\ call[c].pc \in {"eval", "select"}
    /\ call[c].ctx = "live"
    /\ call' = [call EXCEPT ![c].ctx = "canceled"]
    /\ ret' = NoRet
    /\ UNCHANGED <<store, retry, lock, wd, released, ops, sleep>>
    /\ UNCHANGED <<lruVars, cacheVars>>

-----------------------------------------------------------------------------
(* Client.TryLock *)

TryLock(c, k, v, d, nc) ==
    /\ CanAcquire(c)
    /\ LET sr == SetNX(store[k], v, d)
           err == NetErr(nc.net)
       IN
       /\ store' = IF nc.applied THEN [store EXCEPT ![k] = sr.rec] ELSE store
       /\ IF err # Nil
          THEN /\ ret' = Ret(c, "TryLock", Nil, err, err, Nil, NoLock, 0)
               /\ UNCHANGED <<lock, released>>
          ELSE IF ~sr.ok
          THEN /\ ret' = Ret(c, "TryLock", "false", err, "FailToGetLock", Nil,
                               NoLock, 0)
               /\ UNCHANGED <<lock, released>>
          ELSE /\ ret' = Ret(c, "TryLock", "true", err, Nil, Nil, newLock(k, v, d), 0)
               /\ lock' = [lock EXCEPT ![c] = newLock(k, v, d)]
               /\ released' = [released EXCEPT ![c] = FALSE]
    /\ ops' = ops + 1
    /\ UNCHANGED <<call, retry, wd, sleep>>
    /\ UNCHANGED <<lruVars, cacheVars>>

-----------------------------------------------------------------------------
(* Lock.UnLock and Lock.Refresh *)

\* The reply as the Go client reads it with Int64(): the script's number, or 0
\* together with the error.
ReplyInt(n, err) == IF err = Nil THEN n ELSE 0

\* UnLock with the comparison of the count turned round.
UnLockResultInverted(res, err) ==
    IF err = "redis.Nil" \/ res = DelSuccess THEN "ErrLockNotHold"
    ELSE IF err # Nil THEN err
    ELSE Nil

\* UnLock that looks at the error only, not at the count of deleted keys.
UnLockResultErrOnly(res, err) ==
    IF err # Nil THEN err ELSE Nil

\* lock.go lines 45-52: the error UnLock returns for a reply (res, err).
UnLockResult(res, err) ==
    IF err = "redis.Nil" \/ res # DelSuccess THEN "ErrLockNotHold"
    ELSE IF err # Nil THEN err
    ELSE Nil

\* Refresh that reads the code 1 as "the key does not exist".
RefreshResultInverted(res, err) ==
    IF err # Nil THEN err
    ELSE IF res = NotExistKey THEN "ErrLockNotHold"
    ELSE Nil

\* lock.go lines 57-63: the error Refresh returns for a reply (res, err).
RefreshResult(res, err) ==
    IF err # Nil THEN err
    ELSE IF res # NotExistKey THEN "ErrLockNotHold"
    ELSE Nil

UnLock(c, nc) ==
    /\ CanCall(c)
    /\ lock[c] # NoLock
    /\ LET h == lock[c]
           sr == luaUnlock(store[h.key], h.val)
           err == NetErr(nc.net)
           r == UnLockResult(ReplyInt(sr.res, err), err)
       IN
       /\ store' = IF nc.applied THEN [store EXCEPT ![h.key] = sr.rec] ELSE store
       /\ ret' = Ret(c, "UnLock", Num(ReplyInt(sr.res, err)), err, r, Nil, NoLock, 0)
       /\ released' = [released EXCEPT ![c] = @ \/ r = Nil]
    /\ ops' = ops + 1
    /\ UNCHANGED <<call, retry, lock, wd, sleep>>
    /\ UNCHANGED <<lruVars, cacheVars>>

Refresh(c, nc) ==
    /\ CanCall(c)
    /\ lock[c] # NoLock
    /\ LET h == lock[c]
           sr == luaRefresh(store[h.key], h.val, h.expired)
           err == NetErr(nc.net)
           r == RefreshResult(ReplyInt(sr.res, err), err)
       IN
       /\ store' = IF nc.applied THEN [store EXCEPT ![h.key] = sr.rec] ELSE store
       /\ ret' = Ret(c, "Refresh", Num(ReplyInt(sr.res, err)), err, r, Nil, NoLock, 0)
    /\ ops' = ops + 1
    /\ UNCHANGED <<call, retry, lock, wd, released, sleep>>
    /\ UNCHANGED <<lruVars, cacheVars>>

-----------------------------------------------------------------------------
(* Lock.AutoRefresh: the renewal goroutine *)

\* Lines 70, 74: AutoRefresh starts its ticker and makes ch with room for one
\* value.  The caller starts it on a *Lock it has not released.
WdStart(c, interval) ==
    /\ CanCall(c)
    /\ lock[c] # NoLock
    /\ ~released[c]
    /\ wd[c].state # "running"
    /\ wd' = [wd EXCEPT ![c] = [NoWd EXCEPT !.state = "running",
                                            !.interval = interval,
                                            !.tick = interval]]
    /\ ops' = ops + 1
    /\ ret' = NoRet
    /\ UNCHANGED <<store, call, retry, lock, released, sleep>>
    /\ UNCHANGED <<lruVars, cacheVars>>

\* Line 76: the cases of the select that can proceed.
WdReady(c) ==
    {cs \in {"ticker", "ch", "unlock"} :
        \/ cs = "ticker" /\ wd[c].tc > 0
        \/ cs = "ch" /\ wd[c].ch > 0
        \/ cs = "unlock" /\ RecvReady(lock[c].unlock)}

\* AutoRefresh that gives up on a Refresh timeout.
WdBranchTimeoutFatal(err) ==
    IF err # Nil THEN "fail"
    ELSE "goon"

\* AutoRefresh that carries on after any Refresh error.
WdBranchKeepGoing(err) ==
    IF err = "DeadlineExceeded" THEN "again"
    ELSE "goon"

\* Lines 83-93 and 100-110: what the loop does with the error of its Refresh:
\* "again" (wake-up queued, loop on), "fail" (return the error), "go on".
WdBranch(err) ==
    IF err = "DeadlineExceeded" THEN "again"
    ELSE IF err # Nil THEN "fail"
    ELSE "goon"

\* Lines 85-88: the non-blocking send on ch (capacity 1).
TrySend(n) == IF n < 1 THEN n + 1 ELSE n

\* Lines 76-115: one turn of the select loop.  The outcome records the reply
\* and the error of the Refresh the turn made (err), and whether AutoRefresh
\* returned (done).
WdSelect(c, cs, nc) ==
    /\ wd[c].state = "running"
    /\ cs \in WdReady(c)
    /\ IF cs = "unlock"
       THEN /\ wd' = [wd EXCEPT ![c].state = "stopped", ![c].err = Nil]
            /\ ret' = [NoRet EXCEPT !.client = c, !.op = "AutoRefresh",
                                    !.done = TRUE]
            /\ UNCHANGED store
       ELSE /\ wd[c].calls < MaxRefreshCalls
            /\ LET h == lock[c]
                   sr == luaRefresh(store[h.key], h.val, h.expired)
                   err == NetErr(nc.net)
                   r == RefreshResult(ReplyInt(sr.res, err), err)
                   w0 == [wd[c] EXCEPT !.tc = IF cs = "ticker" THEN 0 ELSE @,
                                       !.ch = IF cs = "ch" THEN 0 ELSE @,
                                       !.calls = @ + 1]
                   b == WdBranch(r)
               IN
               /\ store' = IF nc.applied THEN [store EXCEPT ![h.key] = sr.rec]
                                         ELSE store
               /\ wd' = [wd EXCEPT ![c] =
                          CASE b = "again" -> [w0 EXCEPT !.ch = TrySend(w0.ch)]
                            [] b = "fail" -> [w0 EXCEPT !.state = "failed", !.err = r]
                            [] b = "goon" -> w0]
               /\ ret' = [NoRet EXCEPT !.client = c, !.op = "AutoRefresh",
                                       !.res = Num(ReplyInt(sr.res, err)),
                                       !.neterr = err, !.err = r,
                                       !.done = (b = "fail")]
    /\ UNCHANGED <<call, retry, lock, released, ops, sleep>>
    /\ UNCHANGED <<lruVars, cacheVars>>

-----------------------------------------------------------------------------
(* Time *)

\* The pending deadlines: key expiries, in-flight round trips, retry timers,
\* tickers and sleeps.
Pending ==
    {store[k].pttl : k \in {x \in Keys : store[x].val # Nil}}
    \cup {call[c].wait : c \in {x \in Clients : call[x].pc = "eval" /\ call[x].wait > 0}}
    \cup {call[c].timer : c \in {x \in Clients : call[x].pc = "select" /\ call[x].timer > 0}}
    \cup {wd[c].tick : c \in {x \in Clients : wd[x].state = "running"}}
    \cup {sleep[c] : c \in {x \in Clients : sleep[x] > 0}}

\* The store drops a key whose lifetime has run out.
Age(rec, d) ==
    IF rec.val = Nil \/ rec.pttl <= d THEN Absent
    ELSE [rec EXCEPT !.pttl = @ - d]

\* A time.Ticker: when the period runs out a tick is put in the ticker's
\* channel (capacity 1, a tick that finds it full is dropped) and the period
\* restarts.
TickOn(w, d) ==
    IF w.state # "running" THEN w
    ELSE IF w.tick <= d THEN [w EXCEPT !.tick = w.interval, !.tc = 1]
    ELSE [w EXCEPT !.tick = @ - d]

Elapse ==
    /\ Pending # {}
    /\ LET d == Min(Pending) IN
       /\ store' = [k \in Keys |-> Age(store[k], d)]
       /\ call' = [c \in Clients |->
                    [call[c] EXCEPT !.wait = Monus(@, d), !.timer = Monus(@, d)]]
       /\ wd' = [c \in Clients |-> TickOn(wd[c], d)]
       /\ sleep' = [c \in Clients |-> Monus(sleep[c], d)]
    /\ ret' = NoRet
    /\ UNCHANGED <<retry, lock, released, ops>>
    /\ UNCHANGED <<lruVars, cacheVars>>

\* Deadlines running out one at a time, whatever the others are at.

\* The lifetime of key k runs out (SET ... PX / EXPIRE / SETNX expiry).
KeyExpires(k) ==
    /\ store[k].val # Nil
    /\ store' = [store EXCEPT ![k] = Absent]
    /\ ret' = NoRet
    /\ UNCHANGED <<call, retry, lock, wd, released, ops, sleep>>
    /\ UNCHANGED <<lruVars, cacheVars>>

\* The retry timer of client c's Lock call fires.
TimerFires(c) ==
    /\ call[c].pc = "select"
    /\ call[c].timer > 0
    /\ call' = [call EXCEPT ![c].timer = 0]
    /\ ret' = NoRet
    /\ UNCHANGED <<store, retry, lock, wd, released, ops, sleep>>
    /\ UNCHANGED <<lruVars, cacheVars>>

\* The ticker of client c's AutoRefresh goroutine ticks.
TickerTicks(c) ==
    /\ wd[c].state = "running"
    /\ wd[c].tc = 0
    /\ wd' = [wd EXCEPT ![c] = TickOn(wd[c], wd[c].tick)]
    /\ ret' = NoRet
    /\ UNCHANGED <<store, call, retry, lock, released, ops, sleep>>
    /\ UNCHANGED <<lruVars, cacheVars>>

-----------------------------------------------------------------------------
(* The system *)

\* The retry strategies a caller passes to Lock: a new FixIntervalRetry.
Strategies == [Interval : Intervals, Max : 0..MaxRetries, cnt : {0}]

\* The acquisition client and the calls on a *Lock; every Lock call is given
\* a context that is never cancelled.
Next ==
    \/ \E c \in Clients, k \in Keys, v \in Tokens, d \in Expirations,
          r \in Strategies : LockCall(c, k, v, d, r, 0)
    \/ \E c \in Clients, nc \in NetCases : LockRecv(c, nc)
    \/ \E c \in Clients : LockTimer(c, 0)
    \/ \E c \in Clients, k \in Keys, v \in Tokens, d \in Expirations,
          nc \in NetCases : TryLock(c, k, v, d, nc)
    \/ \E c \in Clients, nc \in NetCases : UnLock(c, nc)
    \/ \E c \in Clients, nc \in NetCases : Refresh(c, nc)
    \/ \E k \in Keys : KeyExpires(k)
    \/ \E c \in Clients : TimerFires(c)

Spec == Init /\ [][Next]_vars

\* A *Lock, the calls on it and its AutoRefresh goroutine.
WatchdogNext ==
    \/ \E c \in Clients, k \in Keys, v \in Tokens, d \in Expirations,
          nc \in NetCases : TryLock(c, k, v, d, nc)
    \/ \E c \in Clients, nc \in NetCases : UnLock(c, nc)
    \/ \E c \in Clients, nc \in NetCases : Refresh(c, nc)
    \/ \E c \in Clients, i \in Intervals : WdStart(c, i)
    \/ \E c \in Clients, cs \in {"ticker", "ch", "unlock"}, nc \in NetCases :
          WdSelect(c, cs, nc)
    \/ \E k \in Keys : KeyExpires(k)
    \/ \E c \in Clients : TickerTicks(c)

WatchdogSpec == Init /\ [][WatchdogNext]_vars

\* Contention: the key is held by another owner, with a token of its own, who
\* keeps the record alive; the clients call Lock with fresh strategies and
\* contexts that are never cancelled.
OtherToken == "t0"

ContendedInit ==
    /\ store = [k \in Keys |-> [val |-> OtherToken, pttl |-> 2 * Second]]
    /\ call = [c \in Clients |-> IdleCall]
    /\ retry = [c \in Clients |-> NoRetry]
    /\ lock = [c \in Clients |-> NoLock]
    /\ ret = NoRet
    /\ wd = [c \in Clients |-> NoWd]
    /\ released = [c \in Clients |-> FALSE]
    /\ ops = 0
    /\ sleep = [c \in Clients |-> 0]
    /\ LruOff
    /\ CacheOff

ContendedNext ==
    \/ \E c \in Clients, k \in Keys, v \in Tokens, d \in Expirations,
          r \in Strategies : LockCall(c, k, v, d, r, 0)
    \/ \E c \in Clients, nc \in NetCases : LockRecv(c, nc)
    \/ \E c \in Clients : LockTimer(c, 0)
    \/ \E c \in Clients : TimerFires(c)

\* The goroutine running Lock is scheduled, its store round trips end and its
\* timer fires.
ContendedSpec ==
    /\ ContendedInit /\ [][ContendedNext]_vars
    /\ \A c \in Clients :
         /\ WF_vars(\E nc \in NetCases : LockRecv(c, nc))
         /\ WF_vars(LockTimer(c, 0))
         /\ WF_vars(TimerFires(c))

\* The retry scenario, timed: c2 holds k1 with token t2 (taken with Lock, a
\* record of 2 ms, or with TryLock, a record of 2 s) and releases it after
\* sleeping 120 ms; c1 has just called Lock for k1 with token t1 and
\* FixIntervalRetry{Interval: 50 ms, Max: 3}.  The store is healthy: every
\* reply arrives, after one of the latencies.
ScenarioLatencies == {0, 10, 20}

RetryInit ==
    /\ \E p \in {Seconds(2 * Second), 2 * Second} :
         store = [k \in Keys |-> [val |-> "t2", pttl |-> p]]
    /\ \E lat \in ScenarioLatencies :
         call = [c \in Clients |->
                  IF c = "c1"
                  THEN StartEval([IdleCall EXCEPT !.key = "k1", !.val = "t1",
                                                  !.expiration = 2 * Second], lat)
                  ELSE IdleCall]
    /\ retry = [c \in Clients |->
                 IF c = "c1" THEN [Interval |-> 50, Max |-> 3, cnt |-> 0]
                 ELSE NoRetry]
    /\ lock = [c \in Clients |->
                IF c = "c2" THEN newLock("k1", "t2", 2 * Second) ELSE NoLock]
    /\ ret = NoRet
    /\ wd = [c \in Clients |-> NoWd]
    /\ released = [c \in Clients |-> FALSE]
    /\ ops = 1
    /\ sleep = [c \in Clients |-> IF c = "c2" THEN 120 ELSE 0]
    /\ LruOff
    /\ CacheOff

\* The holder has woken and not yet made its one call.
HolderDue == sleep["c2"] = 0 /\ ops = 1

\* The holder calls UnLock as it wakes: no time passes in between.
RetryNext ==
    \/ LockRecv("c1", [net |-> "ok", applied |-> TRUE])
    \/ \E lat \in ScenarioLatencies : LockTimer("c1", lat)
    \/ HolderDue /\ UnLock("c2", [net |-> "ok", applied |-> TRUE])
    \/ ~HolderDue /\ Elapse

RetrySpec == RetryInit /\ [][RetryNext]_vars

-----------------------------------------------------------------------------
(* Steps, as the properties below recognise them *)

\* This step ends a store attempt of client c's Lock call.
AttemptEnds(c) == call[c].pc = "eval" /\ ret'.op = "Lock" /\ ret'.client = c

\* This step is a call of UnLock / Refresh by client c.
UnLockStep(c) == ops' = ops + 1 /\ ret'.op = "UnLock" /\ ret'.client = c
RefreshStep(c) == ops' = ops + 1 /\ ret'.op = "Refresh" /\ ret'.client = c

\* The store holds the record of client c's *Lock.
Owner(c) == lock[c] # NoLock /\ store[lock[c].key].val = lock[c].val

-----------------------------------------------------------------------------
(* C1 *)

\* C1: mutual exclusion.  While the store holds a record for the key with a
\* token other than the caller's, a store attempt of Lock changes nothing in
\* the store, gives the caller no *Lock, and when its reply arrives the reply
\* is the "held by another" marker (the empty string).
C1_MutualExclusion ==
    [][\A c \in Clients :
         (AttemptEnds(c) /\ store[call[c].key].val \notin {Nil, call[c].val})
         => /\ store' = store
            /\ lock' = lock
            /\ ~ret'.got
            /\ ret'.neterr = Nil => ret'.res = ""]_vars

\* A Lock attempt has just been answered "held by another" while another
\* client holds the key with its own token.
C1_Witness ==
    /\ ret.op = "Lock" /\ ret.neterr = Nil /\ ret.res = ""
    /\ \E o \in Clients \ {ret.client} : Owner(o) /\ ~released[o]

-----------------------------------------------------------------------------
(* C2 *)

\* C2: release by the owner frees the lock.  An UnLock whose *Lock's token is
\* the stored one and whose reply arrives returns nil and leaves the key
\* absent; a Lock attempt on an absent key whose reply arrives returns a *Lock
\* and stores the caller's token.
C2_ReleaseFrees ==
    [][\A c \in Clients :
         /\ (UnLockStep(c) /\ Owner(c) /\ ret'.neterr = Nil)
            => (ret'.err = Nil /\ store'[lock[c].key] = Absent)
         /\ (AttemptEnds(c) /\ store[call[c].key].val = Nil /\ ret'.neterr = Nil)
            => /\ ret'.done /\ ret'.got /\ ret'.err = Nil
               /\ lock'[c] = newLock(call[c].key, call[c].val, call[c].expiration)
               /\ store'[call[c].key].val = call[c].val]_vars

\* A Lock has just returned a *Lock for a key that another client, with
\* another token, held and released.
C2_Witness ==
    /\ ret.op = "Lock" /\ ret.got
    /\ \E c \in Clients, o \in Clients :
         /\ c = ret.client /\ o # c
         /\ released[o]
         /\ lock[o].key = lock[c].key /\ lock[o].val # lock[c].val

-----------------------------------------------------------------------------
(* C3 *)

\* C3: an UnLock whose *Lock's token is not the stored one (another owner's
\* record, or no record) returns ErrLockNotHold and changes nothing in the
\* store.
C3_ReleaseNotOwner ==
    [][\A c \in Clients :
         (UnLockStep(c) /\ ~Owner(c))
         => (ret'.err = "ErrLockNotHold" /\ store' = store)]_vars

\* An UnLock has just been refused while the key is held with another token.
C3_Witness ==
    /\ ret.op = "UnLock" /\ ret.neterr = Nil /\ ret.err = "ErrLockNotHold"
    /\ \E c \in Clients :
         /\ c = ret.client
         /\ store[lock[c].key].val \notin {Nil, lock[c].val}

-----------------------------------------------------------------------------
(* C4 *)

\* C4: a *Lock is dead after release.  Once UnLock on a *Lock has returned
\* nil, every later UnLock or Refresh through it whose reply arrives returns
\* ErrLockNotHold.
C4_DeadAfterRelease ==
    [][\A c \in Clients :
         ((UnLockStep(c) \/ RefreshStep(c)) /\ released[c] /\ ret'.neterr = Nil)
         => ret'.err = "ErrLockNotHold"]_vars

-----------------------------------------------------------------------------
(* C5 *)

\* C5: Refresh never changes the stored token.  By the owner, with the reply
\* arriving, it returns nil and restarts the record's lifetime at the lease of
\* the *Lock; with a token that is not the stored one it changes nothing in
\* the store and, when the reply arrives, returns ErrLockNotHold.
C5_Refresh ==
    [][\A c \in Clients :
         RefreshStep(c)
         => /\ store'[lock[c].key].val = store[lock[c].key].val
            /\ (Owner(c) /\ ret'.neterr = Nil)
               => /\ ret'.err = Nil
                  /\ store'[lock[c].key].pttl = lock[c].expired
                  /\ store'[lock[c].key].pttl > 0
            /\ ~Owner(c)
               => /\ store' = store
                  /\ ret'.neterr = Nil => ret'.err = "ErrLockNotHold"]_vars

\* A Refresh by a former owner has just been refused: the key is held with
\* another token.
C5_Witness ==
    /\ ret.op = "Refresh" /\ ret.neterr = Nil /\ ret.err = "ErrLockNotHold"
    /\ \E c \in Clients :
         /\ c = ret.client
         /\ store[lock[c].key].val \notin {Nil, lock[c].val}

-----------------------------------------------------------------------------
(* C6 *)

\* C6: UnLock tells its failures apart.  When the round trip failed UnLock
\* returns that error, and it returns ErrLockNotHold only when the store
\* answered that nothing was deleted.
C6_ReleaseErrorKinds ==
    ret.op = "UnLock"
    => /\ ret.neterr # Nil => ret.err = ret.neterr
       /\ ret.err = "ErrLockNotHold" => (ret.neterr = Nil /\ ret.res = "0")

-----------------------------------------------------------------------------
(* C7 *)

\* C7: the watchdog never renews after release.  Once UnLock on a *Lock has
\* returned nil, the AutoRefresh goroutine running on that *Lock makes no
\* further Refresh call and does not end in failure.
C7_NoRenewAfterRelease ==
    [][\A c \in Clients :
         (released[c] /\ wd[c].state = "running")
         => /\ wd'[c].calls = wd[c].calls
            /\ wd'[c].state \in {"running", "stopped"}]_vars

-----------------------------------------------------------------------------
(* C8 *)

\* C8: a per-attempt timeout is fatal.  When a store attempt of Lock ends with
\* the deadline exceeded, Lock returns that error in the same step: no *Lock,
\* the retry strategy untouched, no attempt beyond the ones made.
C8_TimeoutFatal ==
    [][\A c \in Clients :
         (AttemptEnds(c) /\ ret'.neterr = "DeadlineExceeded")
         => /\ ret'.done /\ ret'.err = "DeadlineExceeded" /\ ~ret'.got
            /\ call'[c].pc = "idle"
            /\ ret'.attempts = call[c].attempts
            /\ retry'[c] = retry[c]
            /\ lock' = lock]_vars

\* Lock has just returned the deadline error although its strategy had
\* retries left.
C8_Witness ==
    /\ ret.op = "Lock" /\ ret.done /\ ret.err = "DeadlineExceeded"
    /\ \E c \in Clients : c = ret.client /\ retry[c].cnt < retry[c].Max

-----------------------------------------------------------------------------
(* C9 *)

\* C9: against a key that stays held by another owner, a Lock call with a
\* fresh strategy of maximum Max always returns.  After every attempt that
\* did not time out it consults the strategy (the counter goes up by one) and
\* gets no *Lock; it returns exactly when the counter passes Max, and then
\* with the "retries exhausted" error around the last cause, after Max + 1
\* attempts.
C9_ContendedTerminates ==
    /\ [][\A c \in Clients :
           (AttemptEnds(c) /\ ret'.neterr # "DeadlineExceeded")
           => /\ ~ret'.got
              /\ lock' = lock
              /\ retry'[c].cnt = retry[c].cnt + 1
              /\ ret'.done <=> retry[c].cnt + 1 > retry[c].Max
              /\ ret'.done
                 => /\ ret'.err = "RetriesExhausted"
                    /\ ret'.cause = IF ret'.neterr = Nil THEN "held"
                                    ELSE ret'.neterr
                    /\ ret'.attempts = retry[c].Max + 1]_vars
    /\ \A c \in Clients : (call[c].pc # "idle") ~> (call[c].pc = "idle")

\* Lock has just given up on a held key after retrying.
C9_Witness ==
    /\ ret.op = "Lock" /\ ret.done /\ ret.err = "RetriesExhausted"
    /\ ret.cause = "held" /\ ret.attempts > 1
    /\ \E k \in Keys : store[k].val = OtherToken

-----------------------------------------------------------------------------
(* C10 *)

\* C10 as stated: in the retry scenario Lock returns a *Lock, and the
\* successful store attempt is its 3rd or an earlier one.
C10_ByThirdAttempt ==
    (ret.op = "Lock" /\ ret.client = "c1" /\ ret.done)
    => (ret.got /\ ret.err = Nil /\ ret.attempts <= 3)

\* C10, amended: in the retry scenario Lock returns a *Lock, and the
\* successful store attempt is its 4th or an earlier one (Max = 3 allows three
\* retries after the first attempt).
C10_ByFourthAttempt ==
    (ret.op = "Lock" /\ ret.client = "c1" /\ ret.done)
    => (ret.got /\ ret.err = Nil /\ ret.attempts <= 4)

\* Lock has just returned a *Lock from its 4th attempt, after the holder's
\* release.
C10_Witness ==
    /\ ret.op = "Lock" /\ ret.client = "c1" /\ ret.done /\ ret.got
    /\ ret.attempts = 4
    /\ released["c2"]

-----------------------------------------------------------------------------
(* C11 *)

\* Cancellation during the wait: the key is held by another owner, the
\* clients call Lock with fresh strategies, and a caller cancels its context
\* only while its call waits in the select on the retry timer.  The timer may
\* fire before the goroutine is scheduled again: the select then has both
\* cases ready and Go picks either.
CancelNext ==
    \/ \E c \in Clients, k \in Keys, v \in Tokens, d \in Expirations,
          r \in Strategies : LockCall(c, k, v, d, r, 0)
    \/ \E c \in Clients, nc \in NetCases : LockRecv(c, nc)
    \/ \E c \in Clients : LockTimer(c, 0)
    \/ \E c \in Clients : LockCtxDone(c)
    \/ \E c \in Clients : call[c].pc = "select" /\ CtxCancel(c)
    \/ \E c \in Clients : TimerFires(c)

CancelSpec == ContendedInit /\ [][CancelNext]_vars

\* C11: cancellation while Lock waits out a retry interval aborts the call.
\* From the cancellation on, Lock sends no further store attempt, and when it
\* returns it returns the context's error: no *Lock, not "retries exhausted".
C11_CancelAbortsWait ==
    [][\A c \in Clients :
         call[c].ctx = "canceled"
         => /\ call'[c].attempts <= call[c].attempts
            /\ (ret'.op = "Lock" /\ ret'.client = c /\ ret'.done)
               => (ret'.err = "Canceled" /\ ~ret'.got)]_vars

-----------------------------------------------------------------------------
(* C12 *)

\* The lease scenario, timed: at time 0 client c1 takes k1 with token t1 and a
\* ttl d (with TryLock, or with Lock and a strategy without retries) and then
\* neither refreshes nor releases; client c2 sleeps d + 1 ms, more than the
\* ttl, and then calls Lock for k1 with token t2.
LeaseTtls == {1 * Second, 2 * Second}

LeaseInit ==
    /\ store = [k \in Keys |-> Absent]
    /\ call = [c \in Clients |-> IdleCall]
    /\ retry = [c \in Clients |-> NoRetry]
    /\ lock = [c \in Clients |-> NoLock]
    /\ ret = NoRet
    /\ wd = [c \in Clients |-> NoWd]
    /\ released = [c \in Clients |-> FALSE]
    /\ ops = 0
    /\ \E d \in LeaseTtls :
         sleep = [c \in Clients |-> IF c = "c2" THEN d + 1 ELSE 0]
    /\ LruOff
    /\ CacheOff

\* c1 has its *Lock.
LeaseTaken == lock["c1"] # NoLock

\* No time passes before c1 has its *Lock; c1 makes its one call with the ttl
\* that c2 outsleeps.
LeaseNext ==
    \/ /\ ~LeaseTaken
       /\ TryLock("c1", "k1", "t1", sleep["c2"] - 1, [net |-> "ok", applied |-> TRUE])
    \/ /\ ~LeaseTaken
       /\ LockCall("c1", "k1", "t1", sleep["c2"] - 1,
                   [Interval |-> 1 * Second, Max |-> 0, cnt |-> 0], 0)
    \/ LockRecv("c1", [net |-> "ok", applied |-> TRUE])
    \/ \E d \in LeaseTtls, r \in Strategies, lat \in ScenarioLatencies :
          LockCall("c2", "k1", "t2", d, r, lat)
    \/ \E nc \in NetCases : LockRecv("c2", nc)
    \/ \E lat \in ScenarioLatencies : LockTimer("c2", lat)
    \/ LeaseTaken /\ Elapse

LeaseSpec == LeaseInit /\ [][LeaseNext]_vars

\* C12: lease expiry frees the lock.  Once more than the ttl has passed since
\* c1 took the key, without refresh or release, the store no longer holds
\* c1's record, and every Lock attempt of c2, with its other token, whose reply
\* arrives returns a *Lock.
C12_LeaseExpiryFrees ==
    /\ [](LeaseTaken /\ sleep["c2"] = 0 => store["k1"].val # lock["c1"].val)
    /\ [][(AttemptEnds("c2") /\ ret'.neterr = Nil)
          => /\ ret'.done /\ ret'.got /\ ret'.err = Nil
             /\ store'["k1"].val = "t2"]_vars

\* c2 has just been given the key that c1 took with a ttl of 2 s and never
\* released.
C12_Witness ==
    /\ ret.op = "Lock" /\ ret.client = "c2" /\ ret.got
    /\ lock["c1"] = newLock("k1", "t1", 2 * Second) /\ ~released["c1"]
    /\ store["k1"].val = "t2"

-----------------------------------------------------------------------------
(* C13 *)

\* This step is a call of TryLock by client c.
TryLockStep(c) == ops' = ops + 1 /\ ret'.op = "TryLock" /\ ret'.client = c

\* C13: TryLock makes one conditional set and returns.  When the store call
\* fails it returns that error and no *Lock.  Otherwise it returns a *Lock
\* exactly when the key was absent, and the record then carries the caller's
\* token and expiration; when the key exists, whatever its token, it returns
\* FailToGetLock and the store is unchanged.  No retry: the call is over in
\* this step, without a Lock frame or a retry strategy being touched.
C13_TryLockOnce ==
    [][\A c \in Clients :
         TryLockStep(c)
         => /\ ret'.done /\ call' = call /\ retry' = retry
            /\ ret'.neterr # Nil
               => (ret'.err = ret'.neterr /\ ~ret'.got /\ lock' = lock)
            /\ (ret'.neterr = Nil /\ ret'.got)
               => /\ ret'.err = Nil
                  /\ store[lock'[c].key] = Absent
                  /\ store'[lock'[c].key] =
                       [val |-> lock'[c].val, pttl |-> lock'[c].expired]
            /\ (ret'.neterr = Nil /\ ~ret'.got)
               => /\ ret'.err = "FailToGetLock"
                  /\ \E k \in Keys : store[k].val # Nil
                  /\ store' = store /\ lock' = lock]_vars

\* TryLock has just been refused on a key that the caller itself holds.
C13_Witness ==
    /\ ret.op = "TryLock" /\ ret.err = "FailToGetLock"
    /\ \E c \in Clients : c = ret.client /\ Owner(c) /\ ~released[c]

-----------------------------------------------------------------------------
(* C14 *)

\* A caller passes to Lock the *FixIntervalRetry it passed to an earlier call.
LockCallReuse(c, k, v, d, lat) ==
    /\ retry[c] # NoRetry
    /\ LockCall(c, k, v, d, retry[c], lat)

\* Lock calls with fresh and with reused strategies, against a key that is
\* held by another owner until its record expires.
ReuseNext ==
    \/ \E c \in Clients, k \in Keys, v \in Tokens, d \in Expirations,
          r \in Strategies : LockCall(c, k, v, d, r, 0)
    \/ \E c \in Clients, k \in Keys, v \in Tokens, d \in Expirations :
          LockCallReuse(c, k, v, d, 0)
    \/ \E c \in Clients, nc \in NetCases : LockRecv(c, nc)
    \/ \E c \in Clients : LockTimer(c, 0)
    \/ \E c \in Clients : TimerFires(c)
    \/ \E k \in Keys : KeyExpires(k)

ReuseSpec == ContendedInit /\ [][ReuseNext]_vars

\* This step ends a store attempt of client c's Lock call and Lock calls
\* retry.Next(): the attempt neither timed out nor was answered OK.
NextCalled(c) ==
    /\ AttemptEnds(c)
    /\ ret'.neterr # "DeadlineExceeded"
    /\ ~ret'.got

\* C14: FixIntervalRetry.  Every call of Next adds one to the counter and
\* leaves Interval and Max alone; Lock goes on exactly when the incremented
\* counter is at most Max, and then waits the configured Interval.  Nothing
\* but a call of Next changes a strategy: a strategy that is passed again
\* enters the call with the counter it had, and once the counter has reached
\* Max every later call of Next answers stop.
C14_FixIntervalRetry ==
    [][\A c \in Clients :
         /\ NextCalled(c)
            => /\ retry'[c] = [retry[c] EXCEPT !.cnt = @ + 1]
               /\ ~ret'.done <=> retry'[c].cnt <= retry[c].Max
               /\ ~ret'.done => call'[c].timer = retry[c].Interval
               /\ retry[c].cnt >= retry[c].Max
                  => (ret'.done /\ ret'.err = "RetriesExhausted")
         /\ (~NextCalled(c) /\ retry'[c] # retry[c])
            => /\ call[c].pc = "idle" /\ call'[c].pc = "eval"
               /\ retry'[c] \in Strategies]_vars

\* Lock has just given up after a single attempt, because the strategy it was
\* given (Max >= 1) had been used up by earlier calls.
C14_Witness ==
    /\ ret.op = "Lock" /\ ret.done /\ ret.err = "RetriesExhausted"
    /\ ret.attempts = 1
    /\ \E c \in Clients :
         c = ret.client /\ retry[c].Max >= 1 /\ retry[c].cnt > retry[c].Max + 1

-----------------------------------------------------------------------------
(* The LRU cache (lru.go): operations *)

\* len(this.cache)
len(l) == Cardinality({k \in LruKeys : l.cache[k] # 0})

\* remove (lines 117-126), under this.lock.Lock(): unlink node n.  The
\* node's own prev and next are left as they were.
remove(l, n) ==
    LET l1 == IF l.node[n].prev = 0
              THEN [l EXCEPT !.head = l.node[n].next]
              ELSE [l EXCEPT !.node[l.node[n].prev].next = l.node[n].next]
    IN IF l1.node[n].next = 0
       THEN [l1 EXCEPT !.tail = l1.node[n].prev]
       ELSE [l1 EXCEPT !.node[l1.node[n].next].prev = l1.node[n].prev]

\* addToHead (lines 134-142), under this.lock.Lock().
addToHead(l, n) ==
    LET l1 == [l EXCEPT !.node[n].prev = 0, !.node[n].next = l.head]
        l2 == IF l1.head # 0 THEN [l1 EXCEPT !.node[l1.head].prev = n] ELSE l1
        l3 == [l2 EXCEPT !.head = n]
    IN IF l3.tail = 0 THEN [l3 EXCEPT !.tail = n] ELSE l3

\* The nodes a program can still get at: from the map, head, tail and the
\* locals of the calls in progress, along prev and next.
RECURSIVE Closure(_, _)
Closure(l, S) ==
    LET T == S \cup (({l.node[i].prev : i \in S} \cup {l.node[i].next : i \in S})
                     \ {0})
    IN IF T = S THEN S ELSE Closure(l, T)

Live(l, frames) ==
    Closure(l,
            ({l.head, l.tail} \cup {l.cache[k] : k \in LruKeys}
                \cup {frames[g].n : g \in Goroutines}) \ {0})

\* Garbage collection: a node nothing points to is gone (its number is free
\* again).
Collect(l, frames) ==
    LET live == Live(l, frames) IN
    [l EXCEPT !.node = [i \in NodeIds |->
                          IF i \in live THEN l.node[i] ELSE ZeroNode]]

\* One step of goroutine g: the cache becomes l and g's frame f.
LruStep(g, l, f) ==
    /\ gr' = [gr EXCEPT ![g] = f]
    /\ lru' = Collect(l, [gr EXCEPT ![g] = f])

\* A nil pointer dereference ends the program.
Panicked == \E g \in Goroutines : gr[g].pc = "panic"

At(g, pc) == ~Panicked /\ gr[g].pc = pc

\* The reference: the keys in the order of their last use (Put, or Get that
\* hit), most recent first, and the first c of them.
Top(used, c) == SubSeq(used, 1, IF Len(used) < c THEN Len(used) ELSE c)

Range(q) == {q[i] : i \in 1 .. Len(q)}

Without(q, k) == SelectSeq(q, LAMBDA x : x # k)

HistPut(h, k, v) ==
    [used |-> <<k>> \o Without(h.used, k), latest |-> [h.latest EXCEPT ![k] = v]]

HistGet(h, k, c) ==
    IF k \in Range(Top(h.used, c))
    THEN [h EXCEPT !.used = <<k>> \o Without(h.used, k)]
    ELSE h

\* What Get(k) is to return.
Expected(h, k, c) == IF k \in Range(Top(h.used, c)) THEN h.latest[k] ELSE -1

-----------------------------------------------------------------------------
(* LRUCache.Get *)

GetCall(g, k) ==
    /\ At(g, "idle")
    /\ LruStep(g, lru, [IdleGr EXCEPT !.pc = "get", !.key = k])
    /\ UNCHANGED <<hist, lockVars, cacheVars>>

\* Lines 70-73: the lookup in the map, under this.lock.RLock().
GetLookup(g) ==
    /\ At(g, "get")
    /\ LET n == lru.cache[gr[g].key] IN
       LruStep(g, lru, [gr[g] EXCEPT !.n = n,
                                     !.pc = IF n # 0 THEN "getRemove" ELSE "getMiss"])
    /\ UNCHANGED <<hist, lockVars, cacheVars>>

\* Line 74
GetRemove(g) ==
    /\ At(g, "getRemove")
    /\ LruStep(g, remove(lru, gr[g].n), [gr[g] EXCEPT !.pc = "getAdd"])
    /\ UNCHANGED <<hist, lockVars, cacheVars>>

\* Line 75
GetAdd(g) ==
    /\ At(g, "getAdd")
    /\ LruStep(g, addToHead(lru, gr[g].n), [gr[g] EXCEPT !.pc = "getRet"])
    /\ UNCHANGED <<hist, lockVars, cacheVars>>

\* Lines 76 and 78: return getNode.value, or -1.
GetReturn(g) ==
    /\ ~Panicked
    /\ gr[g].pc \in {"getRet", "getMiss"}
    /\ LruStep(g, lru,
               [IdleGr EXCEPT !.key = gr[g].key,
                              !.res = IF gr[g].pc = "getRet"
                                      THEN lru.node[gr[g].n].value ELSE -1])
    /\ hist' = HistGet(hist, gr[g].key, lru.capacity)
    /\ UNCHANGED <<lockVars, cacheVars>>

-----------------------------------------------------------------------------
(* LRUCache.Put and LRUCache.Len *)

PutCall(g, k, v) ==
    /\ At(g, "idle")
    /\ LruStep(g, lru, [IdleGr EXCEPT !.pc = "put", !.key = k, !.value = v])
    /\ UNCHANGED <<hist, lockVars, cacheVars>>

\* The node Put makes for a new key.
NewNode(f) == [key |-> f.key, value |-> f.value, prev |-> 0, next |-> 0]

\* The numbers free for a new node with key k.
Free(k) == {i \in NodeIds \ Live(lru, gr) : i % MaxKey = k % MaxKey}

\* Lines 83 and 90-95: the lookup in the map, without the lock; for a new key
\* the node is made.
PutLookup(g) ==
    /\ At(g, "put")
    /\ LET n == lru.cache[gr[g].key] IN
       IF n # 0
       THEN LruStep(g, lru, [gr[g] EXCEPT !.n = n, !.pc = "putSet"])
       ELSE /\ Free(gr[g].key) # {}
            /\ LET m == Min(Free(gr[g].key)) IN
               LruStep(g, [lru EXCEPT !.node[m] = NewNode(gr[g])],
                       [gr[g] EXCEPT !.n = m, !.pc = "putLen"])
    /\ UNCHANGED <<hist, lockVars, cacheVars>>

\* Line 85
PutSet(g) ==
    /\ At(g, "putSet")
    /\ LruStep(g, [lru EXCEPT !.node[gr[g].n].value = gr[g].value],
               [gr[g] EXCEPT !.pc = "putRemove"])
    /\ UNCHANGED <<hist, lockVars, cacheVars>>

\* Line 86
PutRemove(g) ==
    /\ At(g, "putRemove")
    /\ LruStep(g, remove(lru, gr[g].n), [gr[g] EXCEPT !.pc = "putAdd"])
    /\ UNCHANGED <<hist, lockVars, cacheVars>>

\* Line 87, and the return.
PutAdd(g) ==
    /\ At(g, "putAdd")
    /\ LruStep(g, addToHead(lru, gr[g].n), IdleGr)
    /\ hist' = HistPut(hist, gr[g].key, gr[g].value)
    /\ UNCHANGED <<lockVars, cacheVars>>

\* The test for a full cache with > for ==: the eviction comes one Put late.
IsFullOffByOne(l) == len(l) > l.capacity

\* Line 97
IsFull(l) == len(l) = l.capacity

PutLen(g) ==
    /\ At(g, "putLen")
    /\ LruStep(g, lru, [gr[g] EXCEPT !.pc = IF IsFull(lru) THEN "putEvict"
                                             ELSE "putAddNew"])
    /\ UNCHANGED <<hist, lockVars, cacheVars>>

\* Line 98: delete(this.cache, this.tail.key); a nil tail panics.
PutEvict(g) ==
    /\ At(g, "putEvict")
    /\ IF lru.tail = 0
       THEN LruStep(g, lru, [gr[g] EXCEPT !.pc = "panic"])
       ELSE LruStep(g, [lru EXCEPT !.cache[lru.node[lru.tail].key] = 0],
                    [gr[g] EXCEPT !.pc = "putRemoveTail"])
    /\ UNCHANGED <<hist, lockVars, cacheVars>>

\* Line 99: this.remove(this.tail); with a nil tail, remove panics.
PutRemoveTail(g) ==
    /\ At(g, "putRemoveTail")
    /\ IF lru.tail = 0
       THEN LruStep(g, lru, [gr[g] EXCEPT !.pc = "panic"])
       ELSE LruStep(g, remove(lru, lru.tail), [gr[g] EXCEPT !.pc = "putAddNew"])
    /\ UNCHANGED <<hist, lockVars, cacheVars>>

\* Line 101
PutAddNew(g) ==
    /\ At(g, "putAddNew")
    /\ LruStep(g, addToHead(lru, gr[g].n), [gr[g] EXCEPT !.pc = "putStore"])
    /\ UNCHANGED <<hist, lockVars, cacheVars>>

\* Line 102, and the return.
PutStore(g) ==
    /\ At(g, "putStore")
    /\ LruStep(g, [lru EXCEPT !.cache[gr[g].key] = gr[g].n], IdleGr)
    /\ hist' = HistPut(hist, gr[g].key, gr[g].value)
    /\ UNCHANGED <<lockVars, cacheVars>>

LenCall(g) ==
    /\ At(g, "idle")
    /\ LruStep(g, lru, [IdleGr EXCEPT !.pc = "len"])
    /\ UNCHANGED <<hist, lockVars, cacheVars>>

\* Lines 108-110, under this.lock.RLock().
LenReturn(g) ==
    /\ At(g, "len")
    /\ LruStep(g, lru, [IdleGr EXCEPT !.res = len(lru)])
    /\ UNCHANGED <<hist, lockVars, cacheVars>>

-----------------------------------------------------------------------------
(* The LRU cache: the system *)

\* No lock client in use.
LockOff ==
    /\ store = [k \in Keys |-> Absent]
    /\ call = [c \in Clients |-> IdleCall]
    /\ retry = [c \in Clients |-> NoRetry]
    /\ lock = [c \in Clients |-> NoLock]
    /\ ret = NoRet
    /\ wd = [c \in Clients |-> NoWd]
    /\ released = [c \in Clients |-> FALSE]
    /\ ops = 0
    /\ sleep = [c \in Clients |-> 0]

LruInit ==
    /\ \E c \in Capacities : lru = Constructor(c)
    /\ gr = [g \in Goroutines |-> IdleGr]
    /\ hist = NoHist
    /\ LockOff
    /\ CacheOff

Quiet == \A g \in Goroutines : gr[g].pc = "idle"

\* The steps of a call in progress.
LruSteps(g) ==
    \/ GetLookup(g) \/ GetRemove(g) \/ GetAdd(g) \/ GetReturn(g)
    \/ PutLookup(g) \/ PutSet(g) \/ PutRemove(g) \/ PutAdd(g)
    \/ PutLen(g) \/ PutEvict(g) \/ PutRemoveTail(g) \/ PutAddNew(g)
    \/ PutStore(g) \/ LenReturn(g)

\* Sequential use: one goroutine makes all the calls, one after the other.
LruSeqNext ==
    \/ \E k \in LruKeys : GetCall("g1", k)
    \/ \E k \in LruKeys, v \in LruValues : PutCall("g1", k, v)
    \/ LenCall("g1")
    \/ LruSteps("g1")

LruSeqSpec == LruInit /\ [][LruSeqNext]_vars

-----------------------------------------------------------------------------
(* C15 *)

\* The keys of the list, from head along next.
RECURSIVE Walk(_, _, _)
Walk(l, n, fuel) ==
    IF n = 0 \/ fuel = 0 THEN <<>>
    ELSE <<l.node[n].key>> \o Walk(l, l.node[n].next, fuel - 1)

\* The keys of the list, from tail along prev.
RECURSIVE WalkBack(_, _, _)
WalkBack(l, n, fuel) ==
    IF n = 0 \/ fuel = 0 THEN <<>>
    ELSE WalkBack(l, l.node[n].prev, fuel - 1) \o <<l.node[n].key>>

\* The c most recently used keys, most recent first.
Recent == Top(hist.used, lru.capacity)

\* This step is the return of a Get / of a Len by goroutine g.
GetReturns(g) == gr[g].pc \in {"getRet", "getMiss"} /\ gr'[g].pc = "idle"
LenReturns(g) == gr[g].pc = "len" /\ gr'[g].pc = "idle"

\* This step is the eviction by a Put of goroutine g.
Evicts(g) == gr[g].pc = "putEvict" /\ gr'[g].pc # "putEvict"

\* C15: the LRU cache in sequential use.  Get(k) returns the value of the
\* latest Put(k, v) when k is among the capacity most recently used keys (Put,
\* or Get that hit) and -1 otherwise.  Between calls the list holds exactly
\* those keys, most recent first, the map holds each of them with its node,
\* and each node carries the latest value.  A Put of a new key into a full
\* cache takes out of the map the least recently used key and no other.  The
\* map never holds more than capacity keys, and Len returns their number.
C15_LruSequential ==
    /\ [](len(lru) <= lru.capacity)
    /\ [](Quiet
          => /\ Walk(lru, lru.head, MaxNodes) = Recent
             /\ WalkBack(lru, lru.tail, MaxNodes) = Recent
             /\ \A k \in LruKeys :
                  IF k \in Range(Recent)
                  THEN /\ lru.cache[k] # 0
                       /\ lru.node[lru.cache[k]].key = k
                       /\ lru.node[lru.cache[k]].value = hist.latest[k]
                  ELSE lru.cache[k] = 0)
    /\ [][\A g \in Goroutines :
            /\ GetReturns(g)
               => gr'[g].res = Expected(hist, gr[g].key, lru.capacity)
            /\ LenReturns(g) => gr'[g].res = Len(Recent)
            /\ Evicts(g)
               => /\ Len(Recent) = lru.capacity
                  /\ lru'.cache = [lru.cache EXCEPT ![Recent[Len(Recent)]] = 0]]_vars

\* As in TestLRU: with capacity 2 and three keys put, Get of the key that was
\* evicted has just returned -1.
C15_Witness ==
    /\ Quiet /\ lru.capacity = 2
    /\ gr["g1"].res = -1
    /\ gr["g1"].key \in Range(hist.used) \ Range(Recent)
    /\ Len(hist.used) = 3

-----------------------------------------------------------------------------
(* C16 *)

\* The turn of the select loop that client c's AutoRefresh has just taken, and
\* the error of the Refresh it made.
WdTurn(c) == ret'.op = "AutoRefresh" /\ ret'.client = c

\* C16: a Refresh timeout never ends the watchdog.  When a Refresh made by
\* AutoRefresh ends with the deadline exceeded, AutoRefresh does not return:
\* it is still running, with exactly one wake-up pending on ch, so that the
\* select can make the next Refresh at once, whether or not the ticker has
\* fired; ch never holds more than one wake-up.
C16_TimeoutRetries ==
    /\ [](\A c \in Clients : wd[c].ch <= 1)
    /\ [][\A c \in Clients :
            (WdTurn(c) /\ ret'.err = "DeadlineExceeded")
            => /\ ~ret'.done
               /\ wd'[c].state = "running"
               /\ wd'[c].err = Nil
               /\ wd'[c].ch = 1
               /\ wd'[c].calls = wd[c].calls + 1]_vars

\* The Refresh made for a wake-up has timed out in its turn, with the ticker
\* already due: the second timeout in a row leaves one wake-up pending.
C16_Witness ==
    \E c \in Clients :
        /\ ret.op = "AutoRefresh" /\ ret.client = c
        /\ ret.err = "DeadlineExceeded"
        /\ wd[c].state = "running"
        /\ wd[c].calls = 2
        /\ wd[c].tc > 0
        /\ wd[c].ch = 1

-----------------------------------------------------------------------------
(* C17 *)

\* The errors of a Refresh that end AutoRefresh: every one but the timeout.
Fatal(err) == err # Nil /\ err # "DeadlineExceeded"

\* C17: the watchdog's failure exit.  When a Refresh made by AutoRefresh
\* reports that the lock is not held, or any error other than the timeout,
\* AutoRefresh returns in that turn with exactly that error; a goroutine that
\* has returned so takes no further turn and makes no further Refresh (only a
\* new AutoRefresh call starts a new goroutine, counting from zero).
C17_FailureExit ==
    [][\A c \in Clients :
         /\ (WdTurn(c) /\ Fatal(ret'.err))
            => /\ ret'.done
               /\ wd'[c].state = "failed"
               /\ wd'[c].err = ret'.err
         /\ wd[c].state = "failed"
            => /\ ~WdTurn(c)
               /\ \/ wd'[c] = wd[c]
                  \/ wd'[c].state = "running" /\ wd'[c].calls = 0]_vars

\* AutoRefresh has just returned ErrLockNotHold: the key was gone when the
\* second Refresh of the goroutine ran.
C17_Witness ==
    \E c \in Clients :
        /\ ret.op = "AutoRefresh" /\ ret.client = c /\ ret.done
        /\ ret.err = "ErrLockNotHold"
        /\ wd[c].state = "failed"
        /\ wd[c].err = "ErrLockNotHold"
        /\ wd[c].calls = 2

-----------------------------------------------------------------------------
(* C18 *)

\* C18: the lease installed by Lock is the caller's expiration.  When a store
\* attempt of Lock is answered "OK", the record of the key carries the
\* caller's token and the caller's expiration as its time to live, on
\* creation as on a re-acquire by the same owner.
C18_LeaseIsExpiration ==
    [][\A c \in Clients :
         (AttemptEnds(c) /\ ret'.res = "OK")
         => /\ store'[call[c].key].val = call[c].val
            /\ store'[call[c].key].pttl = call[c].expiration]_vars

-----------------------------------------------------------------------------
(* C19 *)

MaxConcCalls == 3       \* calls the goroutines make between them

\* Concurrent use of a cache of capacity 1, with two keys and one value.
ConcKeys == {1, 2}
ConcValues == {1}

LruConcInit ==
    /\ lru = Constructor(1)
    /\ gr = [g \in Goroutines |-> IdleGr]
    /\ hist = NoHist
    /\ LockOff
    /\ CacheOff

\* Goroutine g enters a call with frame f; ops counts the calls made.
ConcCall(g, f) ==
    /\ At(g, "idle")
    /\ ops < MaxConcCalls
    /\ LruStep(g, lru, f)
    /\ ops' = ops + 1
    /\ UNCHANGED <<store, call, retry, lock, ret, wd, released, sleep, hist>>
    /\ UNCHANGED cacheVars

ConcGet(g, k) == ConcCall(g, [IdleGr EXCEPT !.pc = "get", !.key = k])

ConcPut(g, k, v) ==
    ConcCall(g, [IdleGr EXCEPT !.pc = "put", !.key = k, !.value = v])

ConcLen(g) == ConcCall(g, [IdleGr EXCEPT !.pc = "len"])

\* The goroutines call Get, Put and Len at any time, and their steps
\* interleave wherever the code holds no lock.
LruConcNext ==
    \/ \E g \in Goroutines, k \in ConcKeys : ConcGet(g, k)
    \/ \E g \in Goroutines, k \in ConcKeys, v \in ConcValues : ConcPut(g, k, v)
    \/ \E g \in Goroutines : ConcLen(g)
    \/ \E g \in Goroutines : LruSteps(g)

LruConcSpec == LruConcInit /\ [][LruConcNext]_vars

\* The keys of the map.
MapKeys(l) == {k \in LruKeys : l.cache[k] # 0}

\* head and tail are the two ends of one list: walking next from head and
\* prev from tail visits the same nodes, none twice, and stops.
Linked(l) ==
    LET fw == Walk(l, l.head, MaxNodes + 1)
        bw == WalkBack(l, l.tail, MaxNodes + 1)
    IN /\ fw = bw
       /\ Len(fw) <= MaxNodes
       /\ Cardinality(Range(fw)) = Len(fw)

\* C19: the LRU cache under concurrent callers.  In every interleaving of the
\* steps of Get, Put and Len made by two goroutines no goroutine panics, and
\* whenever no call is in progress the keys of the map are the keys of the
\* list from head, head and tail are the ends of that list, and the map
\* holds no more than capacity entries.
C19_ConcurrentConsistent ==
    /\ ~Panicked
    /\ Quiet => /\ Range(Walk(lru, lru.head, MaxNodes + 1)) = MapKeys(lru)
                /\ Linked(lru)
                /\ len(lru) <= lru.capacity

-----------------------------------------------------------------------------
(* The expiring cache (local_cache): sync.RWMutex *)

\* Lock, once no other writer has the mutex: new readers are kept out from
\* here on, and the writer holds the mutex when the readers have left.
Lock(l, g) == [l EXCEPT !.writer = g]

\* Unlock: the readers blocked in RLock are let in.
Unlock(l) == [l EXCEPT !.writer = Nil, !.readers = l.pending, !.pending = {}]

\* RLock: the reader is in at once unless a writer has or awaits the mutex.
RLock(l, g) ==
    IF l.writer = Nil THEN [l EXCEPT !.readers = @ \cup {g}]
    ELSE [l EXCEPT !.pending = @ \cup {g}]

\* RUnlock by a goroutine that holds no read lock, with no reader in or
\* blocked: the runtime ends the program ("fatal error: sync: RUnlock of
\* unlocked RWMutex").
RUnlockFatal(l, g) == g \notin l.readers /\ l.readers = {} /\ l.pending = {}

\* RUnlock otherwise: a reader leaves; called by a goroutine that holds no
\* read lock while readers are blocked, it lets nobody in and the mutex stays
\* as it is.
RUnlock(l, g) == IF g \in l.readers THEN [l EXCEPT !.readers = @ \ {g}] ELSE l

-----------------------------------------------------------------------------
(* The expiring cache (local_cache): operations *)

MaxCacheCalls == 3      \* calls the goroutines make between them

\* The program runs and goroutine g is at pc.
In(g, pc) == ~cache.fatal /\ cgr[g].pc = pc

\* Lines 73-79 and 110-116: the ExpireTime for duration d at time t (0: none).
Expire(d, t) ==
    LET dd == IF d = DefaultExpire THEN cache.defaultExpire ELSE d
    IN IF dd > 0 THEN t + dd ELSE 0

\* Goroutine g enters a call, up to its Lock or RLock; ops counts the calls.
CacheCall(g, f) ==
    /\ In(g, "idle")
    /\ ops < MaxCacheCalls
    /\ cgr' = [cgr EXCEPT ![g] = [f EXCEPT !.pc = "lock"]]
    /\ ops' = ops + 1
    /\ UNCHANGED <<store, call, retry, lock, ret, wd, released, sleep>>
    /\ UNCHANGED <<cache, now, lruVars>>

\* Lines 72-80: Set works out the ExpireTime before it takes the lock.
Set(g, k, v, d) ==
    CacheCall(g, [IdleCgr EXCEPT !.op = "Set", !.k = k, !.v = v, !.d = d,
                                 !.e = Expire(d, now)])

Replace(g, k, v, d) ==
    CacheCall(g, [IdleCgr EXCEPT !.op = "Replace", !.k = k, !.v = v, !.d = d])

Get(g, k) == CacheCall(g, [IdleCgr EXCEPT !.op = "Get", !.k = k])

GetWithExpire(g, k) ==
    CacheCall(g, [IdleCgr EXCEPT !.op = "GetWithExpire", !.k = k])

Delete(g, k) == CacheCall(g, [IdleCgr EXCEPT !.op = "Delete", !.k = k])

\* Lines 180-183: DeleteExpired reads the clock before it takes the lock.
DeleteExpired(g) ==
    CacheCall(g, [IdleCgr EXCEPT !.op = "DeleteExpired", !.e = now])

Flush(g) == CacheCall(g, [IdleCgr EXCEPT !.op = "Flush"])

ItemCount(g) == CacheCall(g, [IdleCgr EXCEPT !.op = "ItemCount"])

\* The first lock call of each operation: RLock in Get (line 129) and
\* ItemCount (line 214), Lock in the others, GetWithExpire (line 144) among
\* them.
Mode(op) == IF op \in {"Get", "ItemCount"} THEN "r" ELSE "w"

\* c.lock.Lock() / c.lock.RLock(): the call goes through, or blocks.
Acquire(g) ==
    /\ In(g, "lock")
    /\ IF Mode(cgr[g].op) = "w"
       THEN /\ cache.lock.writer = Nil
            /\ cache' = [cache EXCEPT !.lock = Lock(@, g)]
            /\ cgr' = [cgr EXCEPT ![g].pc =
                         IF cache.lock.readers = {} THEN "locked" ELSE "wait"]
       ELSE /\ cache' = [cache EXCEPT !.lock = RLock(@, g)]
            /\ cgr' = [cgr EXCEPT ![g].pc =
                         IF cache.lock.writer = Nil THEN "locked" ELSE "wait"]
    /\ UNCHANGED <<now, lockVars, lruVars>>

\* A blocked Lock or RLock goes through.
Wake(g) ==
    /\ In(g, "wait")
    /\ IF Mode(cgr[g].op) = "w"
       THEN cache.lock.writer = g /\ cache.lock.readers = {}
       ELSE g \in cache.lock.readers
    /\ cgr' = [cgr EXCEPT ![g].pc = "locked"]
    /\ UNCHANGED <<cache, now, lockVars, lruVars>>

\* The frame of a call that has returned res.
Returned(f, res) == [IdleCgr EXCEPT !.op = f.op, !.k = f.k, !.res = res]

\* Goroutine g holds the lock in operation op.
Locked(g, op) == In(g, "locked") /\ cgr[g].op = op

\* Lines 81-85
SetLocked(g) ==
    /\ Locked(g, "Set")
    /\ cache' = [cache EXCEPT !.items[cgr[g].k] = Item(cgr[g].v, cgr[g].e),
                              !.lock = Unlock(@)]
    /\ cgr' = [cgr EXCEPT ![g] = Returned(cgr[g], NoRes)]
    /\ UNCHANGED <<now, lockVars, lruVars>>

\* Lines 98-106, with set (109-121) and exist (123-126).
ReplaceLocked(g) ==
    /\ Locked(g, "Replace")
    /\ IF cache.items[cgr[g].k] = NoItem
       THEN /\ cache' = [cache EXCEPT !.lock = Unlock(@)]
            /\ cgr' = [cgr EXCEPT ![g] =
                         Returned(cgr[g], [NoRes EXCEPT !.err = "doesn't exist"])]
       ELSE /\ cache' = [cache EXCEPT
                           !.items[cgr[g].k] = Item(cgr[g].v, Expire(cgr[g].d, now)),
                           !.lock = Unlock(@)]
            /\ cgr' = [cgr EXCEPT ![g] = Returned(cgr[g], NoRes)]
    /\ UNCHANGED <<now, lockVars, lruVars>>

\* Lines 131-140: what Get returns for an entry of the map at time t.
GetResult(item, t) ==
    IF item = NoItem THEN NoRes
    ELSE IF item.ExpireTime > 0 /\ t > item.ExpireTime THEN NoRes
    ELSE [NoRes EXCEPT !.obj = item.Obj, !.ok = TRUE]

\* Lines 130-140
GetLocked(g) ==
    /\ Locked(g, "Get")
    /\ cache' = [cache EXCEPT !.lock = RUnlock(@, g)]
    /\ cgr' = [cgr EXCEPT ![g] =
                 Returned(cgr[g], GetResult(cache.items[cgr[g].k], now))]
    /\ UNCHANGED <<now, lockVars, lruVars>>

\* Lines 146-156: what GetWithExpire returns for an entry of the map at time
\* t.
GetWithExpireResult(item, t) ==
    IF item = NoItem THEN NoRes
    ELSE IF item.ExpireTime > 0
         THEN IF t > item.ExpireTime THEN NoRes
              ELSE [NoRes EXCEPT !.obj = item.Obj,
                                 !.t = Unix(0, item.ExpireTime), !.ok = TRUE]
         ELSE [NoRes EXCEPT !.obj = item.Obj, !.ok = TRUE]

\* Lines 145-156: the body, under the write lock, and the deferred RUnlock.
GetWithExpireLocked(g) ==
    /\ Locked(g, "GetWithExpire")
    /\ IF RUnlockFatal(cache.lock, g)
       THEN /\ cache' = [cache EXCEPT !.fatal = TRUE]
            /\ cgr' = cgr
       ELSE /\ cache' = [cache EXCEPT !.lock = RUnlock(@, g)]
            /\ cgr' = [cgr EXCEPT ![g] =
                         Returned(cgr[g],
                                  GetWithExpireResult(cache.items[cgr[g].k], now))]
    /\ UNCHANGED <<now, lockVars, lruVars>>

\* Lines 161-165, with delete (168-177); no callback is registered.
DeleteLocked(g) ==
    /\ Locked(g, "Delete")
    /\ cache' = [cache EXCEPT !.items[cgr[g].k] = NoItem, !.lock = Unlock(@)]
    /\ cgr' = [cgr EXCEPT ![g] = Returned(cgr[g], NoRes)]
    /\ UNCHANGED <<now, lockVars, lruVars>>

\* Lines 185-198: the entries that had expired at the time read on entry go.
DeleteExpiredLocked(g) ==
    /\ Locked(g, "DeleteExpired")
    /\ cache' = [cache EXCEPT
                   !.items = [k \in CacheKeys |->
                                IF /\ @[k] # NoItem
                                   /\ @[k].ExpireTime > 0
                                   /\ cgr[g].e > @[k].ExpireTime
                                THEN NoItem ELSE @[k]],
                   !.lock = Unlock(@)]
    /\ cgr' = [cgr EXCEPT ![g] = Returned(cgr[g], NoRes)]
    /\ UNCHANGED <<now, lockVars, lruVars>>

\* Lines 209-210
FlushLocked(g) ==
    /\ Locked(g, "Flush")
    /\ cache' = [cache EXCEPT !.items = [k \in CacheKeys |-> NoItem],
                              !.lock = Unlock(@)]
    /\ cgr' = [cgr EXCEPT ![g] = Returned(cgr[g], NoRes)]
    /\ UNCHANGED <<now, lockVars, lruVars>>

\* Lines 215-217
ItemCountLocked(g) ==
    /\ Locked(g, "ItemCount")
    /\ cache' = [cache EXCEPT !.lock = RUnlock(@, g)]
    /\ cgr' = [cgr EXCEPT ![g] =
                 Returned(cgr[g],
                          [NoRes EXCEPT !.n = Cardinality({k \in CacheKeys :
                                                cache.items[k] # NoItem})])]
    /\ UNCHANGED <<now, lockVars, lruVars>>

\* A second passes.
Tick ==
    /\ ~cache.fatal
    /\ now < MaxNow
    /\ now' = now + 1
    /\ UNCHANGED <<cache, cgr, lockVars, lruVars>>

\* NewCache with a default expiration of none or two seconds, no janitor, and
\* two goroutines that call the cache.
CacheInit ==
    /\ \E d \in {0, 2} : cache = newCache(d)
    /\ cgr = [g \in Goroutines |-> IdleCgr]
    /\ now = 1
    /\ LockOff
    /\ LruOff

CacheNext ==
    \/ \E g \in Goroutines, k \in CacheKeys, v \in Objs, d \in Durations :
          Set(g, k, v, d)
    \/ \E g \in Goroutines, k \in CacheKeys, v \in Objs, d \in Durations :
          Replace(g, k, v, d)
    \/ \E g \in Goroutines, k \in CacheKeys : Get(g, k)
    \/ \E g \in Goroutines, k \in CacheKeys : GetWithExpire(g, k)
    \/ \E g \in Goroutines, k \in CacheKeys : Delete(g, k)
    \/ \E g \in Goroutines : DeleteExpired(g)
    \/ \E g \in Goroutines : Flush(g)
    \/ \E g \in Goroutines : ItemCount(g)
    \/ \E g \in Goroutines : Acquire(g)
    \/ \E g \in Goroutines : Wake(g)
    \/ \E g \in Goroutines :
          \/ SetLocked(g) \/ ReplaceLocked(g) \/ GetLocked(g)
          \/ GetWithExpireLocked(g) \/ DeleteLocked(g)
          \/ DeleteExpiredLocked(g) \/ FlushLocked(g) \/ ItemCountLocked(g)
    \/ Tick

CacheSpec == CacheInit /\ [][CacheNext]_vars

-----------------------------------------------------------------------------
(* C20 *)

\* This step is the return of GetWithExpire by goroutine g.
GetWithExpireReturns(g) == Locked(g, "GetWithExpire") /\ cgr'[g].pc = "idle"

\* C20: the lock discipline of the expiring cache.  No operation ends the
\* program; a goroutine that is in no operation neither holds the RWMutex,
\* for writing or for reading, nor awaits it; and GetWithExpire on a key
\* that is present with an expiration not yet reached returns the object,
\* true, and that expiration as a time.
C20_LockDiscipline ==
    /\ [](~cache.fatal)
    /\ [](\A g \in Goroutines :
            cgr[g].pc = "idle"
            => /\ cache.lock.writer # g
               /\ g \notin cache.lock.readers \cup cache.lock.pending)
    /\ [][\A g \in Goroutines :
            LET item == cache.items[cgr[g].k] IN
            (/\ GetWithExpireReturns(g)
             /\ item # NoItem /\ item.ExpireTime > 0 /\ now <= item.ExpireTime)
            => cgr'[g].res = [NoRes EXCEPT !.obj = item.Obj,
                                           !.t = Unix(item.ExpireTime, 0),
                                           !.ok = TRUE]]_vars

====
